---- MODULE Spec2Model ----
(***************************************************************************)
(* Model of the survey analyzer (src/llm_analyze.py): reconstruction of    *)
(* question/answer pairs from a chat log, the prompt builder, the parser   *)
(* of the summarization model's reply, the CSV row emitter and run(); and  *)
(* of the survey server (src/app.py): the dialogue manager, the session    *)
(* store and the /start and /chat routes.                                  *)
(*                                                                         *)
(* A text (a Python str) is a sequence of Unicode code points, so that     *)
(* strip, substring search, line splitting and difflib's similarity ratio  *)
(* are computed character by character as the code computes them.          *)
(* None (also: a missing text key read with .get) is the value None below, *)
(* which is no text. A missing list (submodules, questions, turns) is the  *)
(* empty list: the code reads each with `or []` or .get(.., []).           *)
(***************************************************************************)
EXTENDS Integers, Sequences, FiniteSets, TLC

VARIABLES
  pc,              \* position of the modelled program
  data,            \* the loaded chat log: main_module_name, submodules, turns
  ti,              \* chatlog_turns_to_qa_list: index of the next turn of the loop
  pending_q,       \* chatlog_turns_to_qa_list: pending question text, or None
  pending_module,  \* chatlog_turns_to_qa_list: module of the pending question
  qa_list,         \* chatlog_turns_to_qa_list: the pairs emitted so far
  conversation_log,\* build_prompt_text / parse_for_csv: the QA pairs given
  parts,           \* build_prompt_text: the sections built so far
  prompt_text,     \* build_prompt_text: the returned text
  result_text,     \* parse_for_csv: the model's reply
  blocks,          \* parse_for_csv: the reply split at blank lines
  rows,            \* parse_for_csv: the rows built so far
  table,           \* the CSV file: NoFile, or the sequence of records written
  batches,         \* the row batches handed to append_rows_to_csv so far
  input_exists,    \* run: whether the input path exists
  model_calls,     \* run: number of calls of summarize_and_score
  table0,          \* run: the CSV file as it was when run() was entered
  question_in,     \* best_submodule_for: its argument question
  submodules_in,   \* best_submodule_for: its argument submodules
  sub_i,           \* best_submodule_for: index of the submodule being scanned
  q_i,             \* best_submodule_for: index of the next question of it
  best_name,       \* best_submodule_for: owner of the best ratio so far
  best_ratio,      \* best_submodule_for: the best ratio so far
  guessed,         \* best_submodule_for: the returned value
  writers,         \* concurrent append_rows_to_csv calls: position, write_header, buffer
  sessions,        \* app.py: the in-memory session store
  logs,            \* app.py: the chat log files, by session id
  log_writes,      \* app.py: how many times each log file was written
  issued,          \* app.py: the session ids handed out by /start
  response,        \* app.py: the response of the last request
  state_trace      \* app.py: every value session['state'] was given, in order

vars == <<pc, data, ti, pending_q, pending_module, qa_list, conversation_log,
          parts, prompt_text, result_text, blocks, rows, table, batches,
          input_exists, model_calls, table0, question_in, submodules_in, sub_i,
          q_i, best_name, best_ratio, guessed, writers, sessions, logs,
          log_writes, issued, response, state_trace>>

qaVars     == <<data, ti, pending_q, pending_module, qa_list>>
promptVars == <<parts, prompt_text>>
parseVars  == <<result_text, blocks, rows>>
csvVars    == <<table, batches>>
runVars    == <<input_exists, model_calls, table0>>
matchVars  == <<question_in, submodules_in, sub_i, q_i, best_name, best_ratio,
               guessed>>
raceVars   == <<writers>>
appVars    == <<sessions, logs, log_writes, issued, response, state_trace>>

(***************************************************************************)
(* Characters and str primitives                                           *)
(***************************************************************************)

\* str.isspace(): what str.strip() removes and what \s matches.
WS == {9, 10, 11, 12, 13, 28, 29, 30, 31, 32, 133, 160, 8232, 8233}

\* The line boundaries of str.splitlines().
LineBreaks == {10, 11, 12, 13, 28, 29, 30, 133, 8232, 8233}

\* \d of a str pattern: decimal digits, here ASCII 0-9 and Thai U+0E50-U+0E59.
Digits == (48..57) \cup (3664..3673)

Max(S) == CHOOSE m \in S : \A n \in S : n <= m
Min(S) == CHOOSE m \in S : \A n \in S : m <= n

\* s.strip()
Strip(s) ==
  LET keep == {i \in 1..Len(s) : s[i] \notin WS}
  IN  IF keep = {} THEN <<>> ELSE SubSeq(s, Min(keep), Max(keep))

\* kw in t
Contains(t, kw) ==
  \E i \in 1..(Len(t) - Len(kw) + 1) : SubSeq(t, i, i + Len(kw) - 1) = kw

\* t.startswith(kw), t.endswith(kw)
StartsWith(t, kw) == Len(kw) <= Len(t) /\ SubSeq(t, 1, Len(kw)) = kw
EndsWith(t, kw) ==
  Len(kw) <= Len(t) /\ SubSeq(t, Len(t) - Len(kw) + 1, Len(t)) = kw

\* "\n".join(xs) and friends: xs joined with the text sep between them.
RECURSIVE Join(_, _)
Join(xs, sep) ==
  IF xs = <<>> THEN <<>>
  ELSE IF Len(xs) = 1 THEN xs[1]
  ELSE xs[1] \o sep \o Join(Tail(xs), sep)

(***************************************************************************)
(* Literals of src/llm_analyze.py, as code points                          *)
(***************************************************************************)

\* _ROBOT_IGNORE_PAT: sawasdee | kho-robkuan | kho-anuyat | kho-anuyati |
\* khobkhun | roem | sinsut | chob-session
RobotIgnoreWords == {
  <<3626, 3623, 3633, 3626, 3604, 3637>>,
  <<3586, 3629, 3619, 3610, 3585, 3623, 3609>>,
  <<3586, 3629, 3629, 3609, 3640, 3597, 3634, 3605>>,
  <<3586, 3629, 3629, 3609, 3640, 3597, 3634, 3605, 3636>>,
  <<3586, 3629, 3610, 3588, 3640, 3603>>,
  <<3648, 3619, 3636, 3656, 3617>>,
  <<3626, 3636, 3657, 3609, 3626, 3640, 3604>>,
  <<3592, 3610, 3648, 3595, 3626, 3594, 3633, 3609>> }

\* The particles of looks_like_question: rue-mai, mai, arai, yang-rai, phoem-toem
QuestionParticles == {
  <<3627, 3619, 3639, 3629, 3652, 3617, 3656>>,
  <<3652, 3627, 3617>>,
  <<3629, 3632, 3652, 3619>>,
  <<3629, 3618, 3656, 3634, 3591, 3652, 3619>>,
  <<3648, 3614, 3636, 3656, 3617, 3648, 3605, 3636, 3617>> }

\* "?"
QuestionMark == <<63>>

\* The lead-in "wan-ni than ma chai borikan arai" (line 87) and "than" (line 88)
LeadIn == <<3623, 3633, 3609, 3609, 3637, 3657, 3607, 3656, 3634, 3609, 3617,
            3634, 3651, 3594, 3657, 3610, 3619, 3636, 3585, 3634, 3619, 3629,
            3632, 3652, 3619>>
Than == <<3607, 3656, 3634, 3609>>

\* The sentinel module "thua-pai" (general), line 149
GeneralModule == <<3607, 3633, 3656, 3623, 3652, 3611>>

\* The score label "khanaen", line 187
ScoreLabel == <<3588, 3632, 3649, 3609, 3609>>

\* ":" of line 181, "\n" of line 157, "Q: " and "A: " of line 156
Colon == <<58>>
Newline == <<10>>
QPrefix == <<10, 81, 58, 32>>
APrefix == <<10, 65, 58, 32>>

(***************************************************************************)
(* looks_like_question                                                     *)
(***************************************************************************)

\* Mutant: no utterance is taken for a greeting.
RobotIgnoreSearch_Never(t) == FALSE

RobotIgnoreSearch(t) == \E w \in RobotIgnoreWords : Contains(t, w)

looks_like_question(text) ==
  LET t == Strip(text)
  IN  IF t = <<>> \/ RobotIgnoreSearch(t) THEN FALSE
      ELSE \/ EndsWith(t, QuestionMark)
           \/ \E p \in QuestionParticles : Contains(t, p)
           \/ StartsWith(t, LeadIn)
           \/ StartsWith(t, Than)

(***************************************************************************)
(* difflib.SequenceMatcher(a=.., b=..).ratio(), no junk (texts are far     *)
(* shorter than the 200 elements at which autojunk starts). Indices are    *)
(* Python's: 0-based, ranges half-open; a[i] of the code is a[i+1] here.   *)
(***************************************************************************)

\* Length of the common run of a from i and b from j inside [.., ahi) x [.., bhi).
RECURSIVE MatchLen(_, _, _, _, _, _)
MatchLen(a, b, i, j, ahi, bhi) ==
  IF i >= ahi \/ j >= bhi THEN 0
  ELSE IF a[i + 1] # b[j + 1] THEN 0
  ELSE 1 + MatchLen(a, b, i + 1, j + 1, ahi, bhi)

\* find_longest_match: <<i, j, k>>, the longest block, of those the one
\* starting earliest in a, of those the one starting earliest in b.
find_longest_match(a, b, alo, ahi, blo, bhi) ==
  LET cands == (alo..(ahi - 1)) \X (blo..(bhi - 1))
      sz    == [p \in cands |-> MatchLen(a, b, p[1], p[2], ahi, bhi)]
      best  == IF cands = {} THEN 0 ELSE Max({sz[p] : p \in cands})
  IN  IF best = 0 THEN <<alo, blo, 0>>
      ELSE LET bi == Min({p[1] : p \in {q \in cands : sz[q] = best}})
               bj == Min({p[2] : p \in {q \in cands : sz[q] = best /\ q[1] = bi}})
           IN  <<bi, bj, best>>

\* Sum of the sizes of get_matching_blocks(): the longest block, then the
\* same to its left and to its right.
RECURSIVE MatchingCount(_, _, _, _, _, _)
MatchingCount(a, b, alo, ahi, blo, bhi) ==
  LET m == find_longest_match(a, b, alo, ahi, blo, bhi)
  IN  IF m[3] = 0 THEN 0
      ELSE m[3]
           + (IF alo < m[1] /\ blo < m[2]
                THEN MatchingCount(a, b, alo, m[1], blo, m[2]) ELSE 0)
           + (IF m[1] + m[3] < ahi /\ m[2] + m[3] < bhi
                THEN MatchingCount(a, b, m[1] + m[3], ahi, m[2] + m[3], bhi)
                ELSE 0)

\* ratio() as the fraction <<numerator, denominator>>: 2.0*matches/length,
\* and 1.0 when both texts are empty.
Ratio(a, b) ==
  LET length == Len(a) + Len(b)
  IN  IF length = 0 THEN <<1, 1>>
      ELSE <<2 * MatchingCount(a, b, 0, Len(a), 0, Len(b)), length>>

\* r > s and r >= 0.45 on fractions with positive denominators
RatioGreater(r, s) == r[1] * s[2] > s[1] * r[2]
AtThreshold(r) == r[1] * 100 >= 45 * r[2]

(***************************************************************************)
(* Python values                                                           *)
(***************************************************************************)

\* None: a value that is no text (no text holds the code point -1).
None == <<-1>>

\* bool(x) of a text or None, and `x or y`
Truthy(x) == x # None /\ x # <<>>
Or(x, y) == IF Truthy(x) THEN x ELSE y

(***************************************************************************)
(* choose_answer_text, best_submodule_for                                  *)
(***************************************************************************)

\* A turn is [who, text, text_raw]; an absent key reads as None.
choose_answer_text(turn) == Strip(Or(Or(turn.text_raw, turn.text), <<>>))

\* Mutant: a later question with an equal ratio replaces the best so far.
RECURSIVE ScanQuestions_LastWins(_, _, _, _, _)
ScanQuestions_LastWins(question, name, qs, k, best) ==
  IF k > Len(qs) THEN best
  ELSE LET ratio == Ratio(question, qs[k])
       IN  ScanQuestions_LastWins(question, name, qs, k + 1,
             IF ~RatioGreater(best.ratio, ratio)
               THEN [name |-> name, ratio |-> ratio]
               ELSE best)

\* The inner loop of best_submodule_for over one submodule's questions, from
\* question k on; best is [name, ratio].
RECURSIVE ScanQuestions(_, _, _, _, _)
ScanQuestions(question, name, qs, k, best) ==
  IF k > Len(qs) THEN best
  ELSE LET ratio == Ratio(question, qs[k])
       IN  ScanQuestions(question, name, qs, k + 1,
             IF RatioGreater(ratio, best.ratio)
               THEN [name |-> name, ratio |-> ratio]
               ELSE best)

\* The outer loop of best_submodule_for, from submodule k on.
RECURSIVE ScanSubmodules(_, _, _, _)
ScanSubmodules(question, subs, k, best) ==
  IF k > Len(subs) THEN best
  ELSE ScanSubmodules(question, subs, k + 1,
         ScanQuestions(question, Or(subs[k].name, <<>>),
                       subs[k].questions, 1, best))

\* Mutant: the 0.45 threshold is not applied.
best_submodule_for_NoThreshold(question, submodules) ==
  ScanSubmodules(question, submodules, 1,
                 [name |-> None, ratio |-> <<0, 1>>]).name

best_submodule_for(question, submodules) ==
  LET best == ScanSubmodules(question, submodules, 1,
                             [name |-> None, ratio |-> <<0, 1>>])
  IN  IF AtThreshold(best.ratio) THEN best.name ELSE None

(***************************************************************************)
(* chatlog_turns_to_qa_list                                                *)
(***************************************************************************)

MainModule(d) == Or(d.main_module_name, <<>>)
Submodules(d) == d.submodules
Turns(d) == d.turns

\* q_text of a robot turn (line 124)
QText(t) == Strip(Or(t.text, <<>>))

\* The module given to a question when it becomes pending (lines 128-129)
GuessModule(q, d) ==
  Or(Or(best_submodule_for(q, Submodules(d)), MainModule(d)), <<>>)

\* The pair appended for a patient turn (lines 135-140)
NewPair(pq, pm, t, d) ==
  [module |-> Or(Or(pm, MainModule(d)), <<>>), q |-> pq,
   a |-> choose_answer_text(t)]

\* Mutant: the pending slot is not cleared after a pair is appended.
LoopBody_NoClear(st, t, d) ==
  IF t.who = "robot" THEN
    IF looks_like_question(QText(t))
      THEN [st EXCEPT !.pending_q = QText(t),
                      !.pending_module = GuessModule(QText(t), d)]
      ELSE st
  ELSE IF t.who = "patient" THEN
    IF Truthy(st.pending_q)
      THEN [st EXCEPT !.qa_list =
              Append(st.qa_list, NewPair(st.pending_q, st.pending_module, t, d))]
      ELSE st
  ELSE st

\* Mutant: a question does not replace a question that is still pending.
LoopBody_KeepFirst(st, t, d) ==
  IF t.who = "robot" THEN
    IF looks_like_question(QText(t)) /\ ~Truthy(st.pending_q)
      THEN [st EXCEPT !.pending_q = QText(t),
                      !.pending_module = GuessModule(QText(t), d)]
      ELSE st
  ELSE IF t.who = "patient" THEN
    IF Truthy(st.pending_q)
      THEN [pending_q |-> None, pending_module |-> None,
            qa_list |-> Append(st.qa_list,
                          NewPair(st.pending_q, st.pending_module, t, d))]
      ELSE st
  ELSE st

\* Mutant: a patient turn is paired without looking at the pending slot.
LoopBody_NoPendingCheck(st, t, d) ==
  IF t.who = "robot" THEN
    IF looks_like_question(QText(t))
      THEN [st EXCEPT !.pending_q = QText(t),
                      !.pending_module = GuessModule(QText(t), d)]
      ELSE st
  ELSE IF t.who = "patient" THEN
    [pending_q |-> None, pending_module |-> None,
     qa_list |-> Append(st.qa_list,
                   NewPair(st.pending_q, st.pending_module, t, d))]
  ELSE st

\* Mutant: a robot turn that is no question empties the pending slot.
LoopBody_MetaClears(st, t, d) ==
  IF t.who = "robot" THEN
    IF looks_like_question(QText(t))
      THEN [st EXCEPT !.pending_q = QText(t),
                      !.pending_module = GuessModule(QText(t), d)]
      ELSE [st EXCEPT !.pending_q = None, !.pending_module = None]
  ELSE IF t.who = "patient" THEN
    IF Truthy(st.pending_q)
      THEN [pending_q |-> None, pending_module |-> None,
            qa_list |-> Append(st.qa_list,
                          NewPair(st.pending_q, st.pending_module, t, d))]
      ELSE st
  ELSE st

\* Mutant: a patient turn with no answer text is skipped.
LoopBody_SkipEmptyAnswer(st, t, d) ==
  IF t.who = "robot" THEN
    IF looks_like_question(QText(t))
      THEN [st EXCEPT !.pending_q = QText(t),
                      !.pending_module = GuessModule(QText(t), d)]
      ELSE st
  ELSE IF t.who = "patient" THEN
    IF Truthy(st.pending_q) /\ Truthy(choose_answer_text(t))
      THEN [pending_q |-> None, pending_module |-> None,
            qa_list |-> Append(st.qa_list,
                          NewPair(st.pending_q, st.pending_module, t, d))]
      ELSE st
  ELSE st

\* One pass of the loop body (lines 121-144) over turn t, on the loop's state
\* st = [pending_q, pending_module, qa_list].
LoopBody(st, t, d) ==
  IF t.who = "robot" THEN
    IF looks_like_question(QText(t))
      THEN [st EXCEPT !.pending_q = QText(t),
                      !.pending_module = GuessModule(QText(t), d)]
      ELSE st
  ELSE IF t.who = "patient" THEN
    IF Truthy(st.pending_q)
      THEN [pending_q |-> None, pending_module |-> None,
            qa_list |-> Append(st.qa_list,
                          NewPair(st.pending_q, st.pending_module, t, d))]
      ELSE st
  ELSE st

\* Mutant: the final pass is missing.
MarkGeneral_Skip(qas) == qas

\* The final pass (lines 147-149): an empty module becomes the sentinel.
MarkGeneral(qas) ==
  [i \in 1..Len(qas) |->
     IF ~Truthy(qas[i].module) THEN [qas[i] EXCEPT !.module = GeneralModule]
     ELSE qas[i]]

LoopStart == [pending_q |-> None, pending_module |-> None, qa_list |-> <<>>]

RECURSIVE RunLoop(_, _, _)
RunLoop(st, k, d) ==
  IF k > Len(Turns(d)) THEN st ELSE RunLoop(LoopBody(st, Turns(d)[k], d), k + 1, d)

chatlog_turns_to_qa_list(d) == MarkGeneral(RunLoop(LoopStart, 1, d).qa_list)

(***************************************************************************)
(* build_prompt_text                                                       *)
(***************************************************************************)

\* qa.get(key, ''): a key that is absent (None here) reads as ''.
Get(v) == IF v = None THEN <<>> ELSE v

\* The section of one pair (line 156): the f-string, stripped.
Section(qa) ==
  Strip(Get(qa.module) \o QPrefix \o Get(qa.q) \o APrefix \o Get(qa.a))

\* Mutant: the sections are joined with a blank line between them.
JoinParts_BlankLine(ps) == Join(ps, Newline \o Newline)

\* The return value (line 157)
JoinParts(ps) == Join(ps, Newline)

build_prompt_text(conv) == JoinParts([i \in 1..Len(conv) |-> Section(conv[i])])

(***************************************************************************)
(* parse_for_csv                                                           *)
(***************************************************************************)

\* A match of \n\s*\n starting at index p of s: 0 when there is none, else
\* the index of its last character (\s* is greedy: the last \n of the run of
\* whitespace that follows p).
BlankLineMatchEnd(s, p) ==
  IF s[p] # 10 THEN 0
  ELSE LET ends == {e \in (p + 1)..Len(s) :
                      s[e] = 10 /\ \A k \in (p + 1)..e : s[k] \in WS}
       IN  IF ends = {} THEN 0 ELSE Max(ends)

\* re.split(r"\n\s*\n", s), from index `from` on: the pieces between the
\* leftmost non-overlapping matches.
RECURSIVE SplitBlankLines(_, _)
SplitBlankLines(s, from) ==
  LET starts == {p \in from..Len(s) : BlankLineMatchEnd(s, p) # 0}
  IN  IF starts = {} THEN <<SubSeq(s, from, Len(s))>>
      ELSE LET p == Min(starts)
           IN  <<SubSeq(s, from, p - 1)>>
                 \o SplitBlankLines(s, BlankLineMatchEnd(s, p) + 1)

\* Line 173
SplitReply(text) ==
  IF Strip(text) # <<>> THEN SplitBlankLines(Strip(text), 1) ELSE <<>>

\* s.splitlines(), from index `from` on: \r\n is one boundary, and a final
\* boundary opens no further line.
RECURSIVE SplitLines(_, _)
SplitLines(s, from) ==
  IF from > Len(s) THEN <<>>
  ELSE LET brk == {p \in from..Len(s) : s[p] \in LineBreaks}
       IN  IF brk = {} THEN <<SubSeq(s, from, Len(s))>>
           ELSE LET p == Min(brk)
                    next == IF s[p] = 13 /\ p < Len(s) /\ s[p + 1] = 10
                              THEN p + 2 ELSE p + 1
                IN  <<SubSeq(s, from, p - 1)>> \o SplitLines(s, next)

\* Line 177: the stripped non-blank lines of a block
RECURSIVE StripNonBlank(_)
StripNonBlank(ls) ==
  IF ls = <<>> THEN <<>>
  ELSE IF Strip(Head(ls)) # <<>>
    THEN <<Strip(Head(ls))>> \o StripNonBlank(Tail(ls))
    ELSE StripNonBlank(Tail(ls))

BlockLines(block) == StripNonBlank(SplitLines(block, 1))

\* Lines 179-183: what follows the first ":" of the first line that has one
SummaryOf(lines) ==
  LET with == {k \in 1..Len(lines) : Contains(lines[k], Colon)}
  IN  IF with = {} THEN <<>>
      ELSE LET ln == lines[Min(with)]
               c  == Min({i \in 1..Len(ln) : ln[i] = 58})
           IN  Strip(SubSeq(ln, c + 1, Len(ln)))

\* re.search(r"(\d+)", ln).group(1): the first run of digits; <<>> for no match
FirstDigits(ln) ==
  LET ds == {i \in 1..Len(ln) : ln[i] \in Digits}
  IN  IF ds = {} THEN <<>>
      ELSE LET b == Min(ds)
               e == Max({j \in b..Len(ln) : \A k \in b..j : ln[k] \in Digits})
           IN  SubSeq(ln, b, e)

\* Mutant: the first label line decides, with or without digits.
ScoreOf_FirstLabelLine(lines) ==
  LET hits == {k \in 1..Len(lines) : Contains(lines[k], ScoreLabel)}
  IN  IF hits = {} THEN <<>> ELSE FirstDigits(lines[Min(hits)])

\* Lines 185-191: the loop goes on past a label line that has no digits, and
\* breaks at the first label line that has some.
ScoreOf(lines) ==
  LET hits == {k \in 1..Len(lines) :
                 Contains(lines[k], ScoreLabel) /\ FirstDigits(lines[k]) # <<>>}
  IN  IF hits = {} THEN <<>> ELSE FirstDigits(lines[Min(hits)])

\* Mutant: past the last block, the last block is used again.
BlockAt_Clamp(bs, i) ==
  IF bs = <<>> THEN <<>> ELSE IF i < Len(bs) THEN bs[i + 1] ELSE bs[Len(bs)]

\* Line 176, i counting from 0 as enumerate does
BlockAt(bs, i) == IF i < Len(bs) THEN bs[i + 1] ELSE <<>>

\* One pass of the loop body (lines 176-199) for pair qa at index i
RowFor(bs, i, qa) ==
  LET lines == BlockLines(BlockAt(bs, i))
  IN  [module |-> Get(qa.module), questions |-> Get(qa.q),
       answers |-> Get(qa.a), summary |-> SummaryOf(lines),
       score |-> ScoreOf(lines)]

parse_for_csv(text, conv) ==
  LET bs == SplitReply(text)
  IN  [i \in 1..Len(conv) |-> RowFor(bs, i - 1, conv[i])]

(***************************************************************************)
(* append_rows_to_csv: the file is the text written to it                  *)
(***************************************************************************)

\* fieldnames (line 205): module, questions, answers, summary, score
FieldNames == <<
  <<109, 111, 100, 117, 108, 101>>,
  <<113, 117, 101, 115, 116, 105, 111, 110, 115>>,
  <<97, 110, 115, 119, 101, 114, 115>>,
  <<115, 117, 109, 109, 97, 114, 121>>,
  <<115, 99, 111, 114, 101>> >>

\* The values of a row in fieldnames order (csv.DictWriter)
RowValues(row) ==
  <<row.module, row.questions, row.answers, row.summary, row.score>>

\* The excel dialect: a field holding , " \r or \n is quoted, its quotes doubled.
RECURSIVE DoubleQuotes(_)
DoubleQuotes(f) ==
  IF f = <<>> THEN <<>>
  ELSE (IF Head(f) = 34 THEN <<34, 34>> ELSE <<Head(f)>>) \o DoubleQuotes(Tail(f))

CsvField(f) ==
  IF \E i \in 1..Len(f) : f[i] \in {44, 34, 13, 10}
    THEN <<34>> \o DoubleQuotes(f) \o <<34>>
    ELSE f

\* One written record: the fields joined by "," and ended by "\r\n"
CsvRecord(fields) ==
  Join([i \in 1..Len(fields) |-> CsvField(fields[i])], <<44>>) \o <<13, 10>>

RECURSIVE CsvRows(_)
CsvRows(rs) ==
  IF rs = <<>> THEN <<>> ELSE CsvRecord(RowValues(Head(rs))) \o CsvRows(Tail(rs))

\* The CSV file when it does not exist.
NoFile == [exists |-> FALSE, content |-> <<>>]

\* Mutant: the header is written by every call.
Appended_AlwaysHeader(file, rs) ==
  [exists |-> TRUE,
   content |-> file.content \o CsvRecord(FieldNames) \o CsvRows(rs)]

\* The file after append_rows_to_csv(rs, path) (lines 203-210)
Appended(file, rs) ==
  [exists |-> TRUE,
   content |-> file.content
               \o (IF ~file.exists THEN CsvRecord(FieldNames) ELSE <<>>)
               \o CsvRows(rs)]

(***************************************************************************)
(* Inputs of the pairing loop                                              *)
(***************************************************************************)

MaxTurns == 4

\* "abc?", "abd?", mai+"?", khobkhun+"?", " ok", "zz", "no ", "M", "S"
TxtAbcQ  == <<97, 98, 99, 63>>
TxtAbdQ  == <<97, 98, 100, 63>>
TxtMaiQ  == <<3652, 3627, 3617, 63>>
TxtThank == <<3586, 3629, 3610, 3588, 3640, 3603, 63>>
TxtOk    == <<32, 111, 107>>
TxtZz    == <<122, 122>>
TxtNo    == <<110, 111, 32>>
NameM    == <<77>>
NameS    == <<83>>

Turn(who, text, raw) == [who |-> who, text |-> text, text_raw |-> raw]

\* Robot turns: a question with a leading blank, a question by particle, a
\* greeting that ends in "?". Patient turns: with a raw capture, with an empty
\* raw capture and a text, with neither. A turn of a third speaker.
TurnPool == {
  Turn("robot", <<32>> \o TxtAbcQ, None),
  Turn("robot", TxtMaiQ, None),
  Turn("robot", TxtThank, None),
  Turn("patient", TxtZz, TxtOk),
  Turn("patient", TxtNo, <<>>),
  Turn("patient", None, None),
  Turn("nurse", TxtAbcQ, None) }

Submodule(name, questions) == [name |-> name, questions |-> questions]

\* Survey configurations <<main_module_name, submodules>>: nothing at all;
\* an empty main module name with a nameless submodule and a named one; a
\* named main module with a submodule whose second question is an exact
\* match of the first robot question and no question near the second.
SurveyPool == {
  <<None, <<>>>>,
  <<<<>>, <<Submodule(None, <<TxtMaiQ>>), Submodule(NameS, <<TxtAbcQ>>)>>>>,
  <<NameM, <<Submodule(NameS, <<TxtAbdQ, TxtAbcQ>>)>>>> }

TurnSeqs == UNION {[1..n -> TurnPool] : n \in 0..MaxTurns}

Records ==
  {[main_module_name |-> s[1], submodules |-> s[2], turns |-> t] :
     s \in SurveyPool, t \in TurnSeqs}

(***************************************************************************)
(* chatlog_turns_to_qa_list as a loop over data["turns"]                   *)
(***************************************************************************)

LoopState == [pending_q |-> pending_q, pending_module |-> pending_module,
              qa_list |-> qa_list]

LoopTo(st) ==
  /\ pending_q' = st.pending_q
  /\ pending_module' = st.pending_module
  /\ qa_list' = st.qa_list
  /\ ti' = ti + 1
  /\ UNCHANGED <<pc, data>>

InLoop == pc = "pairing" /\ ti <= Len(Turns(data))

\* who == "robot" (lines 123-132)
RobotTurn ==
  /\ InLoop /\ Turns(data)[ti].who = "robot"
  /\ LoopTo(LoopBody(LoopState, Turns(data)[ti], data))
  /\ UNCHANGED <<conversation_log, promptVars, parseVars, csvVars, runVars>>
  /\ UNCHANGED <<matchVars, raceVars, appVars>>

\* who == "patient" (lines 133-144)
PatientTurn ==
  /\ InLoop /\ Turns(data)[ti].who = "patient"
  /\ LoopTo(LoopBody(LoopState, Turns(data)[ti], data))
  /\ UNCHANGED <<conversation_log, promptVars, parseVars, csvVars, runVars>>
  /\ UNCHANGED <<matchVars, raceVars, appVars>>

\* any other who: the loop body does nothing
OtherTurn ==
  /\ InLoop /\ Turns(data)[ti].who \notin {"robot", "patient"}
  /\ LoopTo(LoopBody(LoopState, Turns(data)[ti], data))
  /\ UNCHANGED <<conversation_log, promptVars, parseVars, csvVars, runVars>>
  /\ UNCHANGED <<matchVars, raceVars, appVars>>

\* The loop is over: the sentinel pass and the return (lines 147-150)
ReturnQaList ==
  /\ pc = "pairing" /\ ti > Len(Turns(data))
  /\ qa_list' = MarkGeneral(qa_list)
  /\ pc' = "paired"
  /\ UNCHANGED <<data, ti, pending_q, pending_module>>
  /\ UNCHANGED <<conversation_log, promptVars, parseVars, csvVars, runVars>>
  /\ UNCHANGED <<matchVars, raceVars, appVars>>

\* The variables of the parts a specification does not exercise.
IdleQA ==
  /\ data = [main_module_name |-> None, submodules |-> <<>>, turns |-> <<>>]
  /\ ti = 1
  /\ pending_q = None /\ pending_module = None /\ qa_list = <<>>
IdlePrompt == parts = <<>> /\ prompt_text = None
IdleParse == result_text = None /\ blocks = <<>> /\ rows = <<>>
IdleCsv == table = NoFile /\ batches = <<>>
IdleRun == input_exists = TRUE /\ model_calls = 0 /\ table0 = NoFile
IdleMatch ==
  /\ question_in = None /\ submodules_in = <<>> /\ sub_i = 1 /\ q_i = 1
  /\ best_name = None /\ best_ratio = <<0, 1>> /\ guessed = None
IdleRace == writers = <<>>
\* A request and the response to it; NoResponse before the first request.
Response(route, id, status, error, robot_text, finished) ==
  [route |-> route, session_id |-> id, status |-> status, error |-> error,
   robot_text |-> robot_text, finished |-> finished]
NoResponse == Response("", 0, 0, "", None, FALSE)

IdleApp ==
  /\ sessions = <<>> /\ logs = <<>> /\ log_writes = <<>> /\ issued = {}
  /\ response = NoResponse /\ state_trace = <<>>

InitQA ==
  /\ pc = "pairing"
  /\ data \in Records
  /\ ti = 1
  /\ pending_q = None /\ pending_module = None /\ qa_list = <<>>
  /\ conversation_log = <<>>
  /\ IdlePrompt /\ IdleParse /\ IdleCsv /\ IdleRun
  /\ IdleMatch /\ IdleRace /\ IdleApp

NextQA == RobotTurn \/ PatientTurn \/ OtherTurn \/ ReturnQaList

SpecQA == InitQA /\ [][NextQA]_vars

(***************************************************************************)
(* build_prompt_text as a loop over conversation_log (SpecPrompt)          *)
(***************************************************************************)

MaxPairs == 3

Pair(module, q, a) == [module |-> module, q |-> q, a |-> a]

\* Two plain pairs, a pair with an empty answer, a pair with no module key
\* and an answer that ends in a blank.
PairPool == {
  Pair(NameS, TxtAbcQ, Strip(TxtOk)),
  Pair(NameM, TxtMaiQ, TxtZz),
  Pair(NameS, TxtAbcQ, <<>>),
  Pair(None, TxtAbdQ, TxtNo) }

Convs == UNION {[1..n -> PairPool] : n \in 0..MaxPairs}

\* parts.append(...) for the next pair (lines 155-156)
AppendPart ==
  /\ pc = "prompt" /\ Len(parts) < Len(conversation_log)
  /\ parts' = Append(parts, Section(conversation_log[Len(parts) + 1]))
  /\ UNCHANGED <<pc, conversation_log, prompt_text>>
  /\ UNCHANGED <<qaVars, parseVars, csvVars, runVars>>
  /\ UNCHANGED <<matchVars, raceVars, appVars>>

\* return "\n".join(parts) (line 157)
ReturnPrompt ==
  /\ pc = "prompt" /\ Len(parts) = Len(conversation_log)
  /\ prompt_text' = JoinParts(parts)
  /\ pc' = "prompted"
  /\ UNCHANGED <<conversation_log, parts>>
  /\ UNCHANGED <<qaVars, parseVars, csvVars, runVars>>
  /\ UNCHANGED <<matchVars, raceVars, appVars>>

InitPrompt ==
  /\ pc = "prompt"
  /\ conversation_log \in Convs
  /\ parts = <<>> /\ prompt_text = None
  /\ IdleQA /\ IdleParse /\ IdleCsv /\ IdleRun
  /\ IdleMatch /\ IdleRace /\ IdleApp

NextPrompt == AppendPart \/ ReturnPrompt

SpecPrompt == InitPrompt /\ [][NextPrompt]_vars

(***************************************************************************)
(* parse_for_csv as a loop over conversation_log (SpecParse)               *)
(***************************************************************************)

MaxReplyLines == 4

\* Lines of a reply: "s:x", the score label with "=4", the label alone, the
\* label with "10", an empty line, a line of one blank.
LinePool == {
  <<115, 58, 120>>,
  ScoreLabel \o <<61, 52>>,
  ScoreLabel,
  ScoreLabel \o <<49, 48>>,
  <<>>,
  <<32>> }

Replies ==
  {Join(ls, Newline) : ls \in UNION {[1..n -> LinePool] : n \in 0..MaxReplyLines}}

\* The conversation of n pairs that a reply is parsed against
PairCycle == <<Pair(NameS, TxtAbcQ, Strip(TxtOk)), Pair(None, TxtAbdQ, TxtNo),
               Pair(NameM, TxtMaiQ, TxtZz), Pair(NameS, TxtAbcQ, <<>>)>>
ConvOfLen(n) == [i \in 1..n |-> PairCycle[((i - 1) % Len(PairCycle)) + 1]]

\* blocks = re.split(...) (line 173)
SplitBlocks ==
  /\ pc = "split"
  /\ blocks' = SplitReply(result_text)
  /\ pc' = "rows"
  /\ UNCHANGED <<conversation_log, result_text, rows>>
  /\ UNCHANGED <<qaVars, promptVars, csvVars, runVars>>
  /\ UNCHANGED <<matchVars, raceVars, appVars>>

\* One pass of the loop: rows.append(...) (lines 175-199)
ParseRow ==
  /\ pc = "rows" /\ Len(rows) < Len(conversation_log)
  /\ rows' = Append(rows, RowFor(blocks, Len(rows), conversation_log[Len(rows) + 1]))
  /\ UNCHANGED <<pc, conversation_log, result_text, blocks>>
  /\ UNCHANGED <<qaVars, promptVars, csvVars, runVars>>
  /\ UNCHANGED <<matchVars, raceVars, appVars>>

\* return rows (line 200)
ReturnRows ==
  /\ pc = "rows" /\ Len(rows) = Len(conversation_log)
  /\ pc' = "parsed"
  /\ UNCHANGED <<conversation_log, parseVars>>
  /\ UNCHANGED <<qaVars, promptVars, csvVars, runVars>>
  /\ UNCHANGED <<matchVars, raceVars, appVars>>

InitParse ==
  /\ pc = "split"
  /\ conversation_log \in {ConvOfLen(n) : n \in 0..MaxPairs}
  /\ result_text \in Replies
  /\ blocks = <<>> /\ rows = <<>>
  /\ IdleQA /\ IdlePrompt /\ IdleCsv /\ IdleRun
  /\ IdleMatch /\ IdleRace /\ IdleApp

NextParse == SplitBlocks \/ ParseRow \/ ReturnRows

SpecParse == InitParse /\ [][NextParse]_vars

(***************************************************************************)
(* Sequential calls of append_rows_to_csv on one path (SpecCsv)            *)
(***************************************************************************)

MaxCalls == 3

Row(module, questions, answers, summary, score) ==
  [module |-> module, questions |-> questions, answers |-> answers,
   summary |-> summary, score |-> score]

\* A plain row, and a row whose fields hold a comma, a quote and a line break.
RowPlain  == Row(NameS, TxtAbcQ, Strip(TxtOk), <<120>>, <<52>>)
RowQuoted == Row(NameM, <<97, 44, 98>>, <<34>>, <<120, 10, 121>>, <<>>)

BatchPool == {<<>>, <<RowPlain>>, <<RowQuoted>>, <<RowPlain, RowQuoted>>,
              <<RowPlain, RowPlain>>}

\* One call append_rows_to_csv(rs, path) (lines 202-210)
AppendRowsToCsv ==
  /\ pc = "csv" /\ Len(batches) < MaxCalls
  /\ \E rs \in BatchPool :
       /\ table' = Appended(table, rs)
       /\ batches' = Append(batches, rs)
  /\ UNCHANGED <<pc, conversation_log>>
  /\ UNCHANGED <<qaVars, promptVars, parseVars, runVars>>
  /\ UNCHANGED <<matchVars, raceVars, appVars>>

InitCsv ==
  /\ pc = "csv"
  /\ table = NoFile /\ batches = <<>>
  /\ conversation_log = <<>>
  /\ IdleQA /\ IdlePrompt /\ IdleParse /\ IdleRun
  /\ IdleMatch /\ IdleRace /\ IdleApp

NextCsv == AppendRowsToCsv

SpecCsv == InitCsv /\ [][NextCsv]_vars

(***************************************************************************)
(* Two runs calling append_rows_to_csv on one path at once (SpecCsvRace)   *)
(***************************************************************************)

Runs == {1, 2}

RaceBatches == {<<RowPlain>>, <<RowQuoted>>, <<RowPlain, RowQuoted>>}

\* A call of append_rows_to_csv: its position, its local write_header, the
\* rows it was given, how many of them writerows has written, and the bytes
\* written to f that have not reached the file yet.
Writer(rs) ==
  [pc |-> "check", write_header |-> FALSE, rows |-> rs, n |-> 0, buf |-> <<>>]

WriterTo(r, w) ==
  /\ writers' = [writers EXCEPT ![r] = w]
  /\ UNCHANGED <<pc, batches, conversation_log>>
  /\ UNCHANGED <<qaVars, promptVars, parseVars, runVars, matchVars, appVars>>

\* Line 204: write_header = not csv_path.exists()
CheckExists(r) ==
  /\ pc = "race" /\ writers[r].pc = "check"
  /\ WriterTo(r, [writers[r] EXCEPT !.write_header = ~table.exists,
                                    !.pc = "open"])
  /\ UNCHANGED table

\* Line 206: open(.., "a") creates the file when it is not there
OpenAppend(r) ==
  /\ pc = "race" /\ writers[r].pc = "open"
  /\ table' = [table EXCEPT !.exists = TRUE]
  /\ WriterTo(r, [writers[r] EXCEPT !.pc = "header"])

\* Mutant: the header is written whatever write_header is.
WriteHeader_Always(r) ==
  /\ pc = "race" /\ writers[r].pc = "header"
  /\ WriterTo(r, [writers[r] EXCEPT
                    !.buf = @ \o CsvRecord(FieldNames), !.pc = "rows"])
  /\ UNCHANGED table

\* Lines 208-209: if write_header: writer.writeheader()
WriteHeader(r) ==
  /\ pc = "race" /\ writers[r].pc = "header"
  /\ WriterTo(r, [writers[r] EXCEPT
                    !.buf = IF writers[r].write_header
                              THEN @ \o CsvRecord(FieldNames) ELSE @,
                    !.pc = "rows"])
  /\ UNCHANGED table

\* Line 210: writerows writes one record after the other
WriteRow(r) ==
  /\ pc = "race" /\ writers[r].pc = "rows"
  /\ writers[r].n < Len(writers[r].rows)
  /\ WriterTo(r, [writers[r] EXCEPT
                    !.buf = @ \o CsvRecord(RowValues(writers[r].rows[writers[r].n + 1])),
                    !.n = @ + 1])
  /\ UNCHANGED table

\* The file object's buffer is written out when it is full: in append mode
\* the bytes land at the end of the file as it then is.
FlushBuffer(r) ==
  /\ pc = "race" /\ writers[r].pc = "rows" /\ writers[r].buf # <<>>
  /\ writers[r].n < Len(writers[r].rows)
  /\ table' = [table EXCEPT !.content = @ \o writers[r].buf]
  /\ WriterTo(r, [writers[r] EXCEPT !.buf = <<>>])

\* The end of the with block (line 206): the rest of the buffer is written
\* out and the file is closed.
CloseFile(r) ==
  /\ pc = "race" /\ writers[r].pc = "rows"
  /\ writers[r].n = Len(writers[r].rows)
  /\ table' = [table EXCEPT !.content = @ \o writers[r].buf]
  /\ WriterTo(r, [writers[r] EXCEPT !.buf = <<>>, !.pc = "done"])

InitCsvRace ==
  /\ pc = "race"
  /\ table = NoFile /\ batches = <<>>
  /\ \E b \in [Runs -> RaceBatches] : writers = [r \in Runs |-> Writer(b[r])]
  /\ conversation_log = <<>>
  /\ IdleQA /\ IdlePrompt /\ IdleParse /\ IdleRun /\ IdleMatch /\ IdleApp

NextCsvRace ==
  \E r \in Runs :
    \/ CheckExists(r) \/ OpenAppend(r) \/ WriteHeader(r)
    \/ WriteRow(r) \/ FlushBuffer(r) \/ CloseFile(r)

SpecCsvRace == InitCsvRace /\ [][NextCsvRace]_vars

(***************************************************************************)
(* run (SpecRun)                                                           *)
(***************************************************************************)

\* The loaded JSON: a chat log (a dict with "turns"), or anything else, read
\* as the list [items] of its entries.
Generic(items) == [items |-> items]

RunInputs == {
  [main_module_name |-> None, submodules |-> <<>>, turns |-> <<>>],
  [main_module_name |-> NameM,
   submodules |-> <<Submodule(NameS, <<TxtAbdQ, TxtAbcQ>>)>>,
   turns |-> <<Turn("robot", TxtAbcQ, None), Turn("patient", TxtZz, TxtOk)>>],
  [main_module_name |-> NameM,
   submodules |-> <<Submodule(NameS, <<TxtAbdQ, TxtAbcQ>>)>>,
   turns |-> <<Turn("robot", TxtAbcQ, None), Turn("patient", TxtZz, TxtOk),
               Turn("robot", TxtMaiQ, None), Turn("patient", TxtNo, None)>>],
  [main_module_name |-> <<>>, submodules |-> <<>>,
   turns |-> <<Turn("robot", TxtThank, None), Turn("patient", TxtNo, None)>>],
  Generic(<<Pair(None, TxtAbdQ, TxtNo), Pair(NameS, None, None)>>),
  Generic(<<>>) }

\* The result table when run() is entered: absent, or left by an earlier run.
RunTables == {NoFile, Appended(NoFile, <<RowPlain>>)}

\* Lines 226: the entries with a q or an a
RECURSIVE KeepQA(_)
KeepQA(items) ==
  IF items = <<>> THEN <<>>
  ELSE IF Truthy(Head(items).q) \/ Truthy(Head(items).a)
    THEN <<Head(items)>> \o KeepQA(Tail(items))
    ELSE KeepQA(Tail(items))

\* conv of lines 221-226
Conv(d) ==
  IF "turns" \in DOMAIN d THEN chatlog_turns_to_qa_list(d) ELSE KeepQA(d.items)

\* Lines 214-216: the input path does not exist
RunInputMissing ==
  /\ pc = "run" /\ ~input_exists
  /\ pc' = "aborted"
  /\ UNCHANGED <<data, conversation_log, prompt_text, result_text, rows,
                 table, model_calls>>
  /\ UNCHANGED <<ti, pending_q, pending_module, qa_list, parts, blocks,
                 batches, input_exists, table0>>
  /\ UNCHANGED <<matchVars, raceVars, appVars>>

\* Lines 217-229: the input is loaded and holds no pair
RunNoPairs ==
  /\ pc = "run" /\ input_exists /\ Conv(data) = <<>>
  /\ conversation_log' = Conv(data)
  /\ pc' = "aborted"
  /\ UNCHANGED <<data, prompt_text, result_text, rows, table, model_calls>>
  /\ UNCHANGED <<ti, pending_q, pending_module, qa_list, parts, blocks,
                 batches, input_exists, table0>>
  /\ UNCHANGED <<matchVars, raceVars, appVars>>

\* Lines 217-232: the input is loaded and the prompt is built
RunBuildPrompt ==
  /\ pc = "run" /\ input_exists /\ Conv(data) # <<>>
  /\ conversation_log' = Conv(data)
  /\ prompt_text' = build_prompt_text(Conv(data))
  /\ pc' = "call"
  /\ UNCHANGED <<data, result_text, rows, table, model_calls>>
  /\ UNCHANGED <<ti, pending_q, pending_module, qa_list, parts, blocks,
                 batches, input_exists, table0>>
  /\ UNCHANGED <<matchVars, raceVars, appVars>>

\* Mutant: the result file is opened before the model is called.
ModelCallFails_FileCreated ==
  /\ pc = "call"
  /\ model_calls' = model_calls + 1
  /\ table' = Appended(table, <<>>)
  /\ pc' = "aborted"
  /\ UNCHANGED <<data, conversation_log, prompt_text, result_text, rows>>
  /\ UNCHANGED <<ti, pending_q, pending_module, qa_list, parts, blocks,
                 batches, input_exists, table0>>
  /\ UNCHANGED <<matchVars, raceVars, appVars>>

\* Line 235: summarize_and_score raises, and run() does not catch it
ModelCallFails ==
  /\ pc = "call"
  /\ model_calls' = model_calls + 1
  /\ pc' = "aborted"
  /\ UNCHANGED <<data, conversation_log, prompt_text, result_text, rows, table>>
  /\ UNCHANGED <<ti, pending_q, pending_module, qa_list, parts, blocks,
                 batches, input_exists, table0>>
  /\ UNCHANGED <<matchVars, raceVars, appVars>>

\* Lines 235-243: summarize_and_score returns the stripped reply, which is
\* parsed and appended to the table
ModelCallReturns ==
  /\ pc = "call"
  /\ \E reply \in Replies :
       /\ result_text' = Strip(reply)
       /\ rows' = parse_for_csv(Strip(reply), conversation_log)
       /\ table' = Appended(table, rows')
  /\ model_calls' = model_calls + 1
  /\ pc' = "done"
  /\ UNCHANGED <<data, conversation_log, prompt_text>>
  /\ UNCHANGED <<ti, pending_q, pending_module, qa_list, parts, blocks,
                 batches, input_exists, table0>>
  /\ UNCHANGED <<matchVars, raceVars, appVars>>

InitRun ==
  /\ pc = "run"
  /\ input_exists \in BOOLEAN
  /\ data \in RunInputs
  /\ table \in RunTables /\ table0 = table
  /\ model_calls = 0
  /\ conversation_log = <<>>
  /\ prompt_text = None /\ result_text = None /\ rows = <<>>
  /\ ti = 1 /\ pending_q = None /\ pending_module = None /\ qa_list = <<>>
  /\ parts = <<>> /\ blocks = <<>> /\ batches = <<>>
  /\ IdleMatch /\ IdleRace /\ IdleApp

NextRun ==
  \/ RunInputMissing \/ RunNoPairs \/ RunBuildPrompt
  \/ ModelCallFails \/ ModelCallReturns

SpecRun == InitRun /\ [][NextRun]_vars

(***************************************************************************)
(* best_submodule_for as a loop over the submodules' questions (SpecMatch) *)
(***************************************************************************)

MaxSubs == 2

\* "abe?": as near to "abc?" as "abd?" is
TxtAbeQ == <<97, 98, 101, 63>>

\* The questions of a submodule: none; one sharing no character with the
\* utterances; near ones; an exact one after a near one; an exact one twice.
QuestionLists == {
  <<>>, <<TxtZz>>, <<TxtMaiQ>>, <<TxtAbdQ>>, <<TxtAbeQ, TxtAbdQ>>,
  <<TxtAbdQ, TxtAbcQ>>, <<TxtAbcQ, TxtAbcQ>> }

SubmodulePool ==
  {Submodule(n, qs) : n \in {NameS, NameM}, qs \in QuestionLists}

SubmoduleSeqs == UNION {[1..n -> SubmodulePool] : n \in 0..MaxSubs}

\* The submodule and the question the loops stand at
CurrentSub == submodules_in[sub_i]
InScan == pc = "scan" /\ sub_i <= Len(submodules_in)

\* Lines 98-101: one pass of the inner loop
ScanQuestion ==
  /\ InScan /\ q_i <= Len(CurrentSub.questions)
  /\ LET b == ScanQuestions(question_in, Or(CurrentSub.name, <<>>),
                            <<CurrentSub.questions[q_i]>>, 1,
                            [name |-> best_name, ratio |-> best_ratio])
     IN  best_name' = b.name /\ best_ratio' = b.ratio
  /\ q_i' = q_i + 1
  /\ UNCHANGED <<pc, question_in, submodules_in, sub_i, guessed>>
  /\ UNCHANGED <<conversation_log, qaVars, promptVars, parseVars, csvVars,
                 runVars, raceVars, appVars>>

\* Lines 96-98: the questions of a submodule are done, the next one is taken
NextSubmodule ==
  /\ InScan /\ q_i > Len(CurrentSub.questions)
  /\ sub_i' = sub_i + 1 /\ q_i' = 1
  /\ UNCHANGED <<pc, question_in, submodules_in, best_name, best_ratio, guessed>>
  /\ UNCHANGED <<conversation_log, qaVars, promptVars, parseVars, csvVars,
                 runVars, raceVars, appVars>>

\* Line 103: the return
ReturnBest ==
  /\ pc = "scan" /\ sub_i > Len(submodules_in)
  /\ guessed' = (IF AtThreshold(best_ratio) THEN best_name ELSE None)
  /\ pc' = "matched"
  /\ UNCHANGED <<question_in, submodules_in, sub_i, q_i, best_name, best_ratio>>
  /\ UNCHANGED <<conversation_log, qaVars, promptVars, parseVars, csvVars,
                 runVars, raceVars, appVars>>

InitMatch ==
  /\ pc = "scan"
  /\ question_in \in {TxtAbcQ, TxtMaiQ}
  /\ submodules_in \in SubmoduleSeqs
  /\ sub_i = 1 /\ q_i = 1
  /\ best_name = None /\ best_ratio = <<0, 1>> /\ guessed = None
  /\ conversation_log = <<>>
  /\ IdleQA /\ IdlePrompt /\ IdleParse /\ IdleCsv /\ IdleRun
  /\ IdleRace /\ IdleApp

NextMatch == ScanQuestion \/ NextSubmodule \/ ReturnBest

SpecMatch == InitMatch /\ [][NextMatch]_vars

(***************************************************************************)
(* The dialogue manager and the /start and /chat routes of src/app.py      *)
(* (SpecApp, and SpecAppFair where /chat requests keep arriving)           *)
(***************************************************************************)

MaxSessions == 1

\* The robot's fixed utterances (lines 95, 99, 103, 118, 133)
Greeting == <<
  3626, 3623, 3633, 3626, 3604, 3637, 3588, 3619, 3633, 3610, 32,
  3612, 3617, 3586, 3629, 3619, 3610, 3585, 3623, 3609, 3606, 3634,
  3617, 3588, 3635, 3606, 3634, 3617, 3626, 3633, 3657, 3609, 3654,
  32, 3652, 3604, 3657, 3652, 3627, 3617, 3588, 3619, 3633, 3610 >>

DeniedBye == <<
  3586, 3629, 3610, 3588, 3640, 3603, 3588, 3619, 3633, 3610, 32,
  3649, 3621, 3657, 3623, 3586, 3629, 3651, 3627, 3657, 3617, 3637,
  3623, 3633, 3609, 3607, 3637, 3656, 3604, 3637, 3609, 3632, 3588,
  3619, 3633, 3610 >>

DailyQuestion == <<
  3623, 3633, 3609, 3609, 3637, 3657, 3607, 3656, 3634, 3609, 3617,
  3634, 3651, 3594, 3657, 3610, 3619, 3636, 3585, 3634, 3619, 3629,
  3632, 3652, 3619, 3607, 3637, 3656, 3650, 3619, 3591, 3614, 3618,
  3634, 3610, 3634, 3621, 3588, 3619, 3633, 3610 >>

IntroPrefix == <<
  3586, 3629, 3629, 3609, 3640, 3597, 3634, 3605, 3636, 3626, 3629,
  3610, 3606, 3634, 3617, 3648, 3585, 3637, 3656, 3618, 3623, 3585,
  3633, 3610, 39 >>

IntroSuffix == <<
  39, 32, 3626, 3633, 3657, 3609, 3654, 32, 3609, 3632, 3588, 3619,
  3633, 3610 >>

FinalBye == <<
  3586, 3629, 3610, 3588, 3640, 3603, 3617, 3634, 3585, 3626, 3635,
  3627, 3619, 3633, 3610, 3588, 3635, 3605, 3629, 3610, 3586, 3629,
  3591, 3607, 3656, 3634, 3609, 32, 3586, 3629, 3651, 3627, 3657,
  3617, 3637, 3623, 3633, 3609, 3607, 3637, 3656, 3604, 3637, 3609,
  3632, 3588, 3619, 3633, 3610 >>

\* The words of line 167: "mai", "mai saduak", "mai ao"
DenialWords == {
  <<3652, 3617, 3656>>,
  <<3652, 3617, 3656, 3626, 3632, 3604, 3623, 3585>>,
  <<3652, 3617, 3656, 3648, 3629, 3634>> }

\* What the patient is heard to say: "dai" (yes), "mai ao" (no)
TxtDai   == <<3652, 3604, 3657>>
TxtMaiAo == <<3652, 3617, 3656, 3648, 3629, 3634>>
UserTexts == {TxtDai, TxtMaiAo}

\* ALL_MODULES (line 58), as read from the modules file: a module of two
\* submodules, the first with a question and with a text that is no
\* question; a module of one submodule; a module without submodules.
ALL_MODULES == <<
  [Type |-> NameM,
   submodules |-> <<Submodule(NameS, <<TxtAbcQ, TxtZz>>),
                    Submodule(NameM, <<TxtMaiQ>>)>>],
  [Type |-> NameS, submodules |-> <<Submodule(NameS, <<TxtAbdQ>>)>>],
  [Type |-> NameS, submodules |-> <<>>] >>

States == {"start", "awaiting_permission", "permission_denied",
           "ask_daily_activity", "awaiting_activity", "asking_questions",
           "end"}

\* The session record of line 146; the keys that line does not set read as
\* None (main_module_name), [] (submodules) and 0 (submodule_index).
NewSession ==
  [state |-> "start", turns |-> <<>>, main_module_name |-> None,
   submodules |-> <<>>, submodule_index |-> 0]

\* What a call of get_next_robot_turn leaves: the session and the text
Outcome(session, robot_text) == [session |-> session, robot_text |-> robot_text]

\* Lines 106-118: one module is drawn and introduced
ChooseModule(session) ==
  {Outcome([session EXCEPT !.main_module_name = ALL_MODULES[m].Type,
                           !.submodules = ALL_MODULES[m].submodules,
                           !.submodule_index = 0,
                           !.state = "asking_questions"],
           IntroPrefix \o ALL_MODULES[m].Type \o IntroSuffix) :
     m \in 1..Len(ALL_MODULES)}

\* Mutant: a submodule is passed over after each question.
AskQuestion_SkipsSubmodule(session) ==
  IF session.submodule_index < Len(session.submodules)
    THEN {Outcome([session EXCEPT !.submodule_index = @ + 2], q) :
            q \in {session.submodules[session.submodule_index + 1].questions[n] :
                     n \in 1..Len(session.submodules[session.submodule_index + 1].questions)}}
    ELSE {Outcome([session EXCEPT !.state = "end"], FinalBye)}

\* Lines 120-133: one question of the next submodule is drawn, or the
\* conversation is closed
AskQuestion(session) ==
  IF session.submodule_index < Len(session.submodules)
    THEN {Outcome([session EXCEPT !.submodule_index = @ + 1], q) :
            q \in {session.submodules[session.submodule_index + 1].questions[n] :
                     n \in 1..Len(session.submodules[session.submodule_index + 1].questions)}}
    ELSE {Outcome([session EXCEPT !.state = "end"], FinalBye)}

\* The outcomes of get_next_robot_turn(session) (lines 87-135); random.choice
\* makes them several.
get_next_robot_turn(session) ==
  IF session.state = "start"
    THEN {Outcome([session EXCEPT !.state = "awaiting_permission"], Greeting)}
  ELSE IF session.state = "permission_denied"
    THEN {Outcome([session EXCEPT !.state = "end"], DeniedBye)}
  ELSE IF session.state = "ask_daily_activity"
    THEN {Outcome([session EXCEPT !.state = "awaiting_activity"], DailyQuestion)}
  ELSE IF session.state = "awaiting_activity" THEN ChooseModule(session)
  ELSE IF session.state = "asking_questions" THEN AskQuestion(session)
  ELSE {Outcome(session, None)}

\* any(w in user_text for w in [..]) (line 167)
Denies(user_text) == \E w \in DenialWords : Contains(user_text, w)

\* Mutant: a denial sends the session back to the start.
AfterReply_Restart(session, user_text) ==
  IF session.state = "awaiting_permission"
    THEN [session EXCEPT !.state = IF Denies(user_text)
                                     THEN "start"
                                     ELSE "ask_daily_activity"]
    ELSE session

\* Lines 165-170: the reply to the greeting grants or denies permission
AfterReply(session, user_text) ==
  IF session.state = "awaiting_permission"
    THEN [session EXCEPT !.state = IF Denies(user_text)
                                     THEN "permission_denied"
                                     ELSE "ask_daily_activity"]
    ELSE session

\* Lines 149 and 173: the robot's text is added to the turns (in /chat only
\* when there is one)
AppendRobot(session, robot_text) ==
  [session EXCEPT !.turns = Append(@, Turn("robot", robot_text, None))]

\* Line 162: the patient's turn holds the transcription as text_raw
AppendPatient(session, user_text) ==
  [session EXCEPT !.turns = Append(@, Turn("patient", None, user_text))]

\* A dict with key k set to v, and with key k deleted
Put(f, k, v) == [i \in DOMAIN f \cup {k} |-> IF i = k THEN v ELSE f[i]]
Remove(f, k) == [i \in DOMAIN f \ {k} |-> f[i]]

\* The values session['state'] is given by a handler that finds it at a,
\* leaves it at b after the permission check and at c after
\* get_next_robot_turn (every assignment of the code changes the value).
StateChanges(a, b, c) ==
  (IF b # a THEN <<b>> ELSE <<>>) \o (IF c # b THEN <<c>> ELSE <<>>)

\* Mutant: a finished session stays in the store.
StoreAfter_Keeps(store, id, session) == Put(store, id, session)

\* The store after /chat (line 189: a finished session is deleted)
StoreAfter(store, id, session) ==
  IF session.state = "end" THEN Remove(store, id) ELSE Put(store, id, session)

AppFrame ==
  UNCHANGED <<pc, conversation_log, qaVars, promptVars, parseVars, csvVars,
              runVars, matchVars, raceVars>>

\* POST /start (lines 143-150); uuid4 gives an id never handed out before
StartConversation ==
  /\ pc = "serving" /\ Cardinality(issued) < MaxSessions
  /\ LET session_id == Cardinality(issued) + 1
     IN  \E o \in get_next_robot_turn(NewSession) :
           /\ sessions' = Put(sessions, session_id,
                              AppendRobot(o.session, o.robot_text))
           /\ issued' = issued \cup {session_id}
           /\ state_trace' =
                Put(state_trace, session_id,
                    <<"start">> \o StateChanges("start", "start", o.session.state))
           /\ response' = Response("/start", session_id, 200, "",
                                   o.robot_text, FALSE)
  /\ UNCHANGED <<logs, log_writes>>
  /\ AppFrame

\* POST /chat with a session id that is not in the store (line 155)
ChatInvalid(id) ==
  /\ pc = "serving" /\ id \notin DOMAIN sessions
  /\ response' = Response("/chat", id, 400, "Invalid session ID", None, FALSE)
  /\ UNCHANGED <<sessions, logs, log_writes, issued, state_trace>>
  /\ AppFrame

\* POST /chat with a session id of the store (lines 156-191): the patient's
\* turn, the permission check, the robot's turn, and for a finished session
\* the log file and the deletion
ChatTurn(id) ==
  /\ pc = "serving" /\ id \in DOMAIN sessions
  /\ \E user_text \in UserTexts :
       LET heard == AfterReply(AppendPatient(sessions[id], user_text), user_text)
       IN  \E o \in get_next_robot_turn(heard) :
             LET session == IF Truthy(o.robot_text)
                              THEN AppendRobot(o.session, o.robot_text)
                              ELSE o.session
                 is_finished == session.state = "end"
             IN  /\ sessions' = StoreAfter(sessions, id, session)
                 /\ logs' = IF is_finished THEN Put(logs, id, session) ELSE logs
                 /\ log_writes' =
                      IF is_finished
                        THEN Put(log_writes, id,
                                 (IF id \in DOMAIN log_writes
                                    THEN log_writes[id] ELSE 0) + 1)
                        ELSE log_writes
                 /\ state_trace' =
                      [state_trace EXCEPT ![id] =
                         @ \o StateChanges(sessions[id].state, heard.state,
                                           o.session.state)]
                 /\ response' = Response("/chat", id, 200, "", o.robot_text,
                                         is_finished)
  /\ UNCHANGED issued
  /\ AppFrame

InitApp ==
  /\ pc = "serving"
  /\ IdleApp
  /\ conversation_log = <<>>
  /\ IdleQA /\ IdlePrompt /\ IdleParse /\ IdleCsv /\ IdleRun
  /\ IdleMatch /\ IdleRace

NextApp ==
  \/ StartConversation
  \/ \E id \in 1..MaxSessions : ChatInvalid(id) \/ ChatTurn(id)

SpecApp == InitApp /\ [][NextApp]_vars

\* /chat requests keep arriving for every session of the store.
SpecAppFair ==
  SpecApp /\ \A id \in 1..MaxSessions : WF_vars(ChatTurn(id))

(***************************************************************************)
(* Claims about best_submodule_for (specification SpecMatch)               *)
(***************************************************************************)

\* The scanned questions in scan order, each with its owner's name
RECURSIVE Scanned(_)
Scanned(subs) ==
  IF subs = <<>> THEN <<>>
  ELSE [n \in 1..Len(Head(subs).questions) |->
          [name |-> Or(Head(subs).name, <<>>), q |-> Head(subs).questions[n]]]
       \o Scanned(Tail(subs))

\* Position k of the scan has the maximum ratio
IsMaximum(question, sc, k) ==
  \A n \in 1..Len(sc) :
    ~RatioGreater(Ratio(question, sc[n].q), Ratio(question, sc[k].q))

\* The positions with the maximum ratio when that is 0.45 or more
Winners(question, sc) ==
  {k \in 1..Len(sc) :
     IsMaximum(question, sc, k) /\ AtThreshold(Ratio(question, sc[k].q))}

\* C14: the value returned is the name of the owner of the first scanned
\* question whose ratio is the maximum over all scanned questions, when that
\* maximum is 0.45 or more; it is None when the maximum is lower or nothing is
\* scanned; when a scanned question equals the utterance, the owner of the
\* first such question is returned.
C14_FirstMaximumWins ==
  pc = "matched" =>
    LET sc == Scanned(submodules_in)
        w  == Winners(question_in, sc)
        same == {k \in 1..Len(sc) : sc[k].q = question_in}
    IN  /\ w # {} => guessed = sc[Min(w)].name
        /\ w = {} => guessed = None
        /\ same # {} => guessed = sc[Min(same)].name

\* Two submodules of different names hold the maximum, below 1.0; the first
\* one is returned.
C14_Witness ==
  /\ pc = "matched"
  /\ LET sc == Scanned(submodules_in)
         w  == Winners(question_in, sc)
     IN  /\ Cardinality(w) >= 2
         /\ \E k \in w : sc[k].name # sc[Min(w)].name
         /\ \A k \in 1..Len(sc) : sc[k].q # question_in
         /\ guessed = sc[Min(w)].name

(***************************************************************************)
(* Claims about chatlog_turns_to_qa_list (specification SpecQA)            *)
(***************************************************************************)

\* The indices of the robot turns that looks_like_question classifies as
\* questions, and of the patient turns.
QuestionIdx(d) ==
  {i \in 1..Len(Turns(d)) :
     Turns(d)[i].who = "robot" /\ looks_like_question(QText(Turns(d)[i]))}
PatientIdx(d) == {i \in 1..Len(Turns(d)) : Turns(d)[i].who = "patient"}

\* The k-th smallest element of a set of numbers
Kth(S, k) == CHOOSE i \in S : Cardinality({j \in S : j < i}) = k - 1

\* Every question turn is immediately followed by a patient turn.
EachAnswered(d) ==
  \A i \in QuestionIdx(d) : i < Len(Turns(d)) /\ (i + 1) \in PatientIdx(d)

\* C1: when each of the N robot turns classified as a question is immediately
\* followed by a patient turn, the returned list has exactly N pairs, and the
\* k-th pair holds the (stripped) text of the k-th such robot turn and the
\* answer text of the patient turn right after it.
C1_PairsInOrder ==
  (pc = "paired" /\ EachAnswered(data)) =>
     /\ Len(qa_list) = Cardinality(QuestionIdx(data))
     /\ \A k \in 1..Len(qa_list) :
          LET i == Kth(QuestionIdx(data), k)
          IN  /\ qa_list[k].q = QText(Turns(data)[i])
              /\ qa_list[k].a = choose_answer_text(Turns(data)[i + 1])

C1_Witness ==
  /\ pc = "paired" /\ EachAnswered(data)
  /\ Cardinality(QuestionIdx(data)) = 2
  /\ qa_list[1].q # qa_list[2].q

\* The question turn and answer turn behind a pair emitted at turn j
LatestQuestion(d, j) == Max({i \in QuestionIdx(d) : i < j})

\* Turns of the shape [robot question, robot question, patient]
TwoQuestionsOneAnswer(d) ==
  Len(Turns(d)) = 3 /\ QuestionIdx(d) = {1, 2} /\ PatientIdx(d) = {3}

C2_Example ==
  (pc = "paired" /\ TwoQuestionsOneAnswer(data)) =>
     /\ Len(qa_list) = 1
     /\ qa_list[1].q = QText(Turns(data)[2])
     /\ qa_list[1].a = choose_answer_text(Turns(data)[3])

C2_Step ==
  (pc = "pairing" /\ Len(qa_list') = Len(qa_list) + 1) =>
     /\ \E i \in QuestionIdx(data) : i < ti
     /\ qa_list'[Len(qa_list')].q = QText(Turns(data)[LatestQuestion(data, ti)])
     /\ qa_list'[Len(qa_list')].a = choose_answer_text(Turns(data)[ti])

\* C2: a question that arrives while another is pending replaces it: for
\* [robot Q1, robot Q2, patient A] the result is the one pair (Q2, A), and
\* every pair emitted holds the latest question turn before its answer turn.
C2_LatestQuestionWins == [](C2_Example) /\ [][C2_Step]_vars

C2_Witness ==
  /\ pc = "paired" /\ TwoQuestionsOneAnswer(data)
  /\ QText(Turns(data)[1]) # QText(Turns(data)[2])
  /\ Len(qa_list) = 1

C3_Bound ==
  /\ Len(qa_list) <= Cardinality({i \in PatientIdx(data) : i < ti})
  /\ Len(qa_list) <= Cardinality({i \in QuestionIdx(data) : i < ti})

C3_Step ==
  (InLoop /\ Turns(data)[ti].who = "patient" /\ ~Truthy(pending_q)) =>
     (qa_list' = qa_list /\ pending_q' = pending_q /\ ~Truthy(pending_q'))

\* C3: a patient turn that finds the pending slot empty adds no pair and
\* leaves the slot empty; the number of pairs never exceeds the number of
\* patient turns nor the number of question-classified robot turns.
C3_UnaskedAnswerDropped == [](C3_Bound) /\ [][C3_Step]_vars

C3_Witness ==
  /\ pc = "paired"
  /\ 1 \in PatientIdx(data)
  /\ Len(qa_list) = 1
  /\ Cardinality(PatientIdx(data)) = 3

\* The module the code resolves for question q of record d, before the
\* sentinel pass: the guessed submodule, else the main module.
Unresolved(q, d) ==
  ~Truthy(best_submodule_for(q, Submodules(d))) /\ ~Truthy(MainModule(d))

\* C4: every returned pair has a non-empty module, whatever the record; a
\* pair whose module was unresolved has the sentinel module.
C4_ModuleNeverEmpty ==
  pc = "paired" =>
    \A k \in 1..Len(qa_list) :
      /\ Truthy(qa_list[k].module)
      /\ Unresolved(qa_list[k].q, data) => qa_list[k].module = GeneralModule

C4_Witness ==
  /\ pc = "paired"
  /\ data.main_module_name = None /\ data.submodules = <<>>
  /\ Len(qa_list) = 2
  /\ \A k \in 1..2 : qa_list[k].module = GeneralModule

\* No submodule question has a similarity ratio of 0.45 or more with q.
NoMatch(q, d) ==
  \A k \in 1..Len(Submodules(d)) :
    \A n \in 1..Len(Submodules(d)[k].questions) :
      ~AtThreshold(Ratio(q, Submodules(d)[k].questions[n]))

MetaIdx(d) ==
  {i \in 1..Len(Turns(d)) :
     Turns(d)[i].who = "robot" /\ ~looks_like_question(QText(Turns(d)[i]))}

\* Turns of the shape [robot question, robot meta, patient]
QuestionMetaAnswer(d) ==
  Len(Turns(d)) = 3 /\ QuestionIdx(d) = {1} /\ MetaIdx(d) = {2}
  /\ PatientIdx(d) = {3}

\* Turns of the shape [robot meta, patient]
MetaAnswer(d) ==
  Len(Turns(d)) = 2 /\ MetaIdx(d) = {1} /\ PatientIdx(d) = {2}

C13_Examples ==
  /\ (pc = "paired" /\ QuestionMetaAnswer(data)) =>
        /\ Len(qa_list) = 1
        /\ qa_list[1].q = QText(Turns(data)[1])
        /\ qa_list[1].a = choose_answer_text(Turns(data)[3])
  /\ (pc = "paired" /\ MetaAnswer(data)) => qa_list = <<>>

C13_Step ==
  (InLoop /\ ti \in MetaIdx(data)) =>
     /\ pending_q' = pending_q
     /\ pending_module' = pending_module
     /\ qa_list' = qa_list

\* C13: a robot turn that is not classified as a question leaves the pending
\* question, its module and the pairs as they were; [robot question Q, robot
\* meta M, patient A] gives the one pair (Q, A), and [robot meta M, patient A]
\* gives no pair.
C13_MetaTurnKeepsPending == [](C13_Examples) /\ [][C13_Step]_vars

C13_Witness ==
  /\ pc = "paired" /\ QuestionMetaAnswer(data)
  /\ Len(qa_list) = 1
  /\ qa_list[1].q = QText(Turns(data)[1])

\* The first of text_raw and text that is there (not None), else "".
FirstPresent(t) ==
  IF t.text_raw # None THEN t.text_raw
  ELSE IF t.text # None THEN t.text ELSE <<>>

\* The first of text_raw and text that is a non-empty text, else "".
FirstNonEmpty(t) ==
  IF t.text_raw # None /\ t.text_raw # <<>> THEN t.text_raw
  ELSE IF t.text # None /\ t.text # <<>> THEN t.text ELSE <<>>

\* A patient turn that finds a question pending appends one pair holding that
\* question, and empties the slot.
PairEmitted ==
  /\ Len(qa_list') = Len(qa_list) + 1
  /\ SubSeq(qa_list', 1, Len(qa_list)) = qa_list
  /\ qa_list'[Len(qa_list')].q = pending_q
  /\ pending_q' = None /\ pending_module' = None

PatientOnPending ==
  InLoop /\ Turns(data)[ti].who = "patient" /\ Truthy(pending_q)

\* C16 as stated: a patient turn that finds a question pending always emits a
\* pair and clears the slot, and the pair's answer is text_raw when the turn
\* has one, otherwise text, otherwise the empty text.
C16_Original ==
  [][PatientOnPending =>
       /\ PairEmitted
       /\ qa_list'[Len(qa_list')].a = FirstPresent(Turns(data)[ti])]_vars

\* C16 amended: such a turn always emits a pair and clears the slot, and the
\* pair's answer is, stripped of surrounding whitespace, text_raw when that is
\* a non-empty text, otherwise text when that is a non-empty text, otherwise
\* the empty text.
C16_AnswerAlwaysPaired ==
  [][PatientOnPending =>
       /\ PairEmitted
       /\ qa_list'[Len(qa_list')].a = Strip(FirstNonEmpty(Turns(data)[ti]))]_vars

\* A returned pair whose answer is empty, and one whose answer comes from
\* text because text_raw is the empty text.
C16_Witness ==
  /\ pc = "paired" /\ Len(qa_list) = 2
  /\ QuestionIdx(data) = {1, 3} /\ PatientIdx(data) = {2, 4}
  /\ Turns(data)[2].text_raw = None /\ Turns(data)[2].text = None
  /\ qa_list[1].a = <<>>
  /\ Turns(data)[4].text_raw = <<>>
  /\ qa_list[2].a = Strip(Turns(data)[4].text) /\ qa_list[2].a # <<>>

(***************************************************************************)
(* Claims about parse_for_csv (specification SpecParse)                    *)
(***************************************************************************)

\* The characters of s that are not whitespace
NonBlank(s) == SelectSeq(s, LAMBDA c : c \notin WS)

\* blocks are the parts of the reply between its blank lines: together they
\* hold every non-blank character of the reply, in order, and none holds a
\* blank line.
BlocksArePartsBetweenBlankLines ==
  /\ NonBlank(Join(blocks, <<>>)) = NonBlank(result_text)
  /\ \A b \in 1..Len(blocks) :
       \A p \in 1..Len(blocks[b]) : BlankLineMatchEnd(blocks[b], p) = 0

\* C6: one row per pair, in pair order, with the pair's module, question and
\* answer unchanged; row i takes its summary and score from block i alone,
\* and a pair past the last block gets an empty summary and an empty score.
C6_RowsAlignWithBlocks ==
  pc = "parsed" =>
    /\ BlocksArePartsBetweenBlankLines
    /\ Len(rows) = Len(conversation_log)
    /\ \A i \in 1..Len(rows) :
         /\ rows[i].module = Get(conversation_log[i].module)
         /\ rows[i].questions = Get(conversation_log[i].q)
         /\ rows[i].answers = Get(conversation_log[i].a)
         /\ IF i <= Len(blocks)
              THEN /\ rows[i].summary = SummaryOf(BlockLines(blocks[i]))
                   /\ rows[i].score = ScoreOf(BlockLines(blocks[i]))
              ELSE rows[i].summary = <<>> /\ rows[i].score = <<>>

C6_Witness ==
  /\ pc = "parsed"
  /\ Len(conversation_log) = 3 /\ Len(blocks) = 2
  /\ rows[1].summary # <<>> /\ rows[2].score # <<>>
  /\ rows[3].summary = <<>> /\ rows[3].score = <<>>

\* The lines of a block that hold the score label, and those of them that
\* hold a digit too.
LabelLines(ls) == {k \in 1..Len(ls) : Contains(ls[k], ScoreLabel)}
HasDigit(ln) == \E i \in 1..Len(ln) : ln[i] \in Digits
LabelDigitLines(ls) == {k \in LabelLines(ls) : HasDigit(ls[k])}

\* d is the first run of digits of line ln.
IsFirstDigitRun(ln, d) ==
  \E b \in 1..Len(ln) : \E e \in b..Len(ln) :
    /\ d = SubSeq(ln, b, e)
    /\ \A k \in 1..(b - 1) : ln[k] \notin Digits
    /\ \A k \in b..e : ln[k] \in Digits
    /\ e < Len(ln) => ln[e + 1] \notin Digits

\* C15 as stated: the first line of the block that holds the score label
\* decides the score: its first run of digits, and the empty text when it has
\* none, whatever the later lines hold.
C15_Original ==
  pc = "parsed" =>
    \A i \in 1..Len(rows) :
      i <= Len(blocks) =>
        LET ls == BlockLines(blocks[i])
        IN  IF LabelLines(ls) = {} \/ ~HasDigit(ls[Min(LabelLines(ls))])
              THEN rows[i].score = <<>>
              ELSE IsFirstDigitRun(ls[Min(LabelLines(ls))], rows[i].score)

\* C15 amended: the first line of the block that holds the score label and a
\* digit decides the score: its first run of digits. A label line without a
\* digit is passed over, and the score is empty only when no line of the
\* block holds both the label and a digit.
C15_FirstLabelLineWithDigits ==
  pc = "parsed" =>
    \A i \in 1..Len(rows) :
      i <= Len(blocks) =>
        LET ls == BlockLines(blocks[i])
        IN  IF LabelDigitLines(ls) = {}
              THEN rows[i].score = <<>>
              ELSE IsFirstDigitRun(ls[Min(LabelDigitLines(ls))], rows[i].score)

\* A block whose first label line has no digit and whose later label line
\* has: the row takes the score of the later line.
C15_Witness ==
  /\ pc = "parsed"
  /\ \E i \in 1..Len(rows) :
       /\ i <= Len(blocks)
       /\ LET ls == BlockLines(blocks[i])
          IN  /\ LabelLines(ls) # {} /\ LabelDigitLines(ls) # {}
              /\ Min(LabelLines(ls)) < Min(LabelDigitLines(ls))
              /\ rows[i].score # <<>>

(***************************************************************************)
(* Claims about append_rows_to_csv (specification SpecCsv)                 *)
(***************************************************************************)

RECURSIVE Concat(_)
Concat(bs) == IF bs = <<>> THEN <<>> ELSE Head(bs) \o Concat(Tail(bs))

C7_Content ==
  IF batches = <<>> THEN table = NoFile
  ELSE /\ table.exists
       /\ table.content = CsvRecord(FieldNames) \o CsvRows(Concat(batches))

C7_Step ==
  batches' # batches =>
    /\ SubSeq(table'.content, 1, Len(table.content)) = table.content
    /\ table'.content =
         table.content
           \o (IF table.exists THEN <<>> ELSE CsvRecord(FieldNames))
           \o CsvRows(batches'[Len(batches')])

\* C7: after sequential appends to a table that did not exist, the table is
\* the header followed by all the rows appended, in call order, duplicates
\* kept; each call keeps the old content as a prefix and writes the header
\* only when the table did not exist.
C7_HeaderOnceThenRows == [](C7_Content) /\ [][C7_Step]_vars

C7_Witness ==
  /\ Len(batches) = 3
  /\ batches[1] = <<RowPlain, RowQuoted>> /\ batches[2] = batches[1]
  /\ batches[3] = <<>>
  /\ table.exists

(***************************************************************************)
(* Claims about concurrent appends (specification SpecCsvRace)             *)
(***************************************************************************)

\* The records of a run's rows, in order
RowRecords(rs) == [i \in 1..Len(rs) |-> CsvRecord(RowValues(rs[i]))]

\* Text c is an interleaving of the records of a and the records of b, each
\* in its order.
RECURSIVE IsMerge(_, _, _)
IsMerge(c, a, b) ==
  IF a = <<>> /\ b = <<>> THEN c = <<>>
  ELSE \/ /\ a # <<>> /\ StartsWith(c, Head(a))
          /\ IsMerge(SubSeq(c, Len(Head(a)) + 1, Len(c)), Tail(a), b)
       \/ /\ b # <<>> /\ StartsWith(c, Head(b))
          /\ IsMerge(SubSeq(c, Len(Head(b)) + 1, Len(c)), a, Tail(b))

AllReturned == pc = "race" /\ \A r \in Runs : writers[r].pc = "done"

\* What a run writes: the header when its check found no file, then its rows
Output(r) ==
  (IF writers[r].write_header THEN <<CsvRecord(FieldNames)>> ELSE <<>>)
    \o RowRecords(writers[r].rows)

\* C17 as stated: when both runs have returned, the table is one header
\* record followed by the rows of both runs and nothing else.
C17_Original ==
  AllReturned =>
    /\ StartsWith(table.content, CsvRecord(FieldNames))
    /\ IsMerge(SubSeq(table.content, Len(CsvRecord(FieldNames)) + 1,
                      Len(table.content)),
               RowRecords(writers[1].rows), RowRecords(writers[2].rows))

\* C17 amended: when both runs have returned, the table is an interleaving
\* of what the two runs wrote, each run having written the header if its
\* existence check found no table and then its rows in order; at least one
\* run has written the header.
C17_EachRunWritesItsOwnHeader ==
  AllReturned =>
    /\ table.exists
    /\ IsMerge(table.content, Output(1), Output(2))
    /\ \E r \in Runs : writers[r].write_header

\* Both runs checked before either opened the file: two headers.
C17_Witness ==
  /\ AllReturned
  /\ \A r \in Runs : writers[r].write_header
  /\ table.content =
       CsvRecord(FieldNames) \o CsvRows(writers[1].rows)
         \o CsvRecord(FieldNames) \o CsvRows(writers[2].rows)

(***************************************************************************)
(* Claims about build_prompt_text (specification SpecPrompt)               *)
(***************************************************************************)

\* A text that is one non-empty line with no blank at either end
PlainText(x) ==
  x # None /\ x # <<>> /\ Strip(x) = x /\ \A i \in 1..Len(x) : x[i] \notin LineBreaks
AllPlain(conv) ==
  \A i \in 1..Len(conv) :
    PlainText(conv[i].module) /\ PlainText(conv[i].q) /\ PlainText(conv[i].a)

\* The three lines of a section: the module label, "Q: ..." and "A: ..."
SectionLines(qa) == <<qa.module, <<81, 58, 32>> \o qa.q, <<65, 58, 32>> \o qa.a>>

\* The lines of the sections of conv in order, with the lines `between`
\* between two sections.
RECURSIVE PromptLines(_, _)
PromptLines(conv, between) ==
  IF conv = <<>> THEN <<>>
  ELSE IF Len(conv) = 1 THEN SectionLines(conv[1])
  ELSE SectionLines(conv[1]) \o between \o PromptLines(Tail(conv), between)

\* C8 as stated: the sections, three lines each, in input order, with a
\* blank line between consecutive sections.
C8_Original ==
  (pc = "prompted" /\ AllPlain(conversation_log)) =>
     SplitLines(prompt_text, 1) = PromptLines(conversation_log, << <<>> >>)

\* C8 amended: one section per pair in input order, each the module label
\* line, the "Q: " line and the "A: " line, stripped of leading and trailing
\* whitespace as a whole; consecutive sections are separated by one line
\* break, with no blank line between them.
C8_SectionsJoinedByOneLineBreak ==
  pc = "prompted" =>
    /\ Len(parts) = Len(conversation_log)
    /\ \A i \in 1..Len(parts) :
         parts[i] = Strip(Get(conversation_log[i].module) \o <<10, 81, 58, 32>>
                          \o Get(conversation_log[i].q) \o <<10, 65, 58, 32>>
                          \o Get(conversation_log[i].a))
    /\ prompt_text = Join(parts, <<10>>)
    /\ AllPlain(conversation_log) =>
         SplitLines(prompt_text, 1) = PromptLines(conversation_log, <<>>)

C8_Witness ==
  /\ pc = "prompted"
  /\ Len(conversation_log) = 3 /\ AllPlain(conversation_log)
  /\ conversation_log[1] # conversation_log[2]
  /\ Len(SplitLines(prompt_text, 1)) = 9

(***************************************************************************)
(* Claims about run (specification SpecRun)                                *)
(***************************************************************************)

\* C9: a run that aborts leaves the table as it was; when the input is
\* missing or holds no pair the model is never called; the model is called
\* at most once.
C9_AbortLeavesTableAlone ==
  /\ model_calls <= 1
  /\ pc = "aborted" => table = table0
  /\ (pc = "aborted" /\ (~input_exists \/ Conv(data) = <<>>)) => model_calls = 0
  /\ pc \in {"run", "call"} => table = table0

C9_Witness ==
  /\ pc = "aborted" /\ model_calls = 1
  /\ input_exists /\ Conv(data) # <<>>
  /\ ~table0.exists /\ table = NoFile

\* A score that is absent, or one of "1" .. "5"
ScoreInRange(sc) == sc = <<>> \/ (Len(sc) = 1 /\ sc[1] \in 49..53)

\* C10: every row a run has appended to the table has a score that is absent
\* or an integer from 1 to 5, whatever the model replied.
C10_ScoreInRange ==
  pc = "done" =>
    /\ table = Appended(table0, rows)
    /\ \A i \in 1..Len(rows) : ScoreInRange(rows[i].score)

(***************************************************************************)
(* Claims about the dialogue manager and the routes (SpecApp, SpecAppFair) *)
(***************************************************************************)

\* The transitions the claim allows
Edges == {
  <<"start", "awaiting_permission">>,
  <<"awaiting_permission", "permission_denied">>,
  <<"awaiting_permission", "ask_daily_activity">>,
  <<"permission_denied", "end">>,
  <<"ask_daily_activity", "awaiting_activity">>,
  <<"awaiting_activity", "asking_questions">>,
  <<"asking_questions", "asking_questions">>,
  <<"asking_questions", "end">> }

\* The state a session has now: in the store, or in its log file
StateNow(id) ==
  IF id \in DOMAIN sessions THEN sessions[id].state ELSE logs[id].state

\* C11: the state of every session is one of the seven states; the values it
\* is given, from "start" on, follow the edges of the claim; no state is
\* given again after another one has followed it.
C11_StatesFollowEdges ==
  \A id \in issued :
    LET tr == state_trace[id]
    IN  /\ tr[1] = "start"
        /\ StateNow(id) = tr[Len(tr)]
        /\ \A i \in 1..Len(tr) : tr[i] \in States
        /\ \A i \in 1..(Len(tr) - 1) : <<tr[i], tr[i + 1]>> \in Edges
        /\ \A i \in 1..Len(tr) : \A j \in 1..Len(tr) : i # j => tr[i] # tr[j]

\* A session that went all the way through a module of two submodules
C11_Witness ==
  \E id \in issued :
    /\ state_trace[id] = <<"start", "awaiting_permission", "ask_daily_activity",
                           "awaiting_activity", "asking_questions", "end">>
    /\ id \in DOMAIN logs /\ Len(logs[id].submodules) = 2

C12_Store ==
  /\ DOMAIN sessions \cup DOMAIN logs = issued
  /\ DOMAIN sessions \cap DOMAIN logs = {}
  /\ DOMAIN log_writes = DOMAIN logs
  /\ \A id \in DOMAIN sessions : sessions[id].state # "end"
  /\ \A id \in DOMAIN logs : logs[id].state = "end" /\ log_writes[id] = 1

C12_Step ==
  /\ \A id \in DOMAIN sessions :
       id \notin DOMAIN sessions' =>
         LET before == sessions[id].turns
             logged == logs'[id].turns
         IN  /\ response'.route = "/chat" /\ response'.session_id = id
             /\ response'.finished
             /\ id \notin DOMAIN logs /\ id \in DOMAIN logs'
             /\ log_writes'[id] = 1
             /\ Len(logged) = Len(before) + 2
             /\ SubSeq(logged, 1, Len(before)) = before
             /\ logged[Len(logged) - 1].who = "patient"
             /\ logged[Len(logged)] = Turn("robot", response'.robot_text, None)
             /\ response'.robot_text \in {DeniedBye, FinalBye}
  /\ \A id \in DOMAIN logs :
       id \in DOMAIN logs' /\ logs'[id] = logs[id]
         /\ log_writes'[id] = log_writes[id]
  /\ (response'.route = "/chat" /\ response'.session_id \notin DOMAIN sessions) =>
       /\ response'.status = 400
       /\ response'.error = "Invalid session ID"
       /\ UNCHANGED <<sessions, logs, log_writes>>

\* C12: a session id is in the store from its /start until the /chat that
\* brings its state to "end" and no longer; that request writes the log file
\* once, with every turn up to the robot's closing turn, and deletes the
\* session; a /chat with an id that is not in the store is answered with
\* the invalid-session error and changes neither the store nor a log file.
C12_StoreUntilEnd == [](C12_Store) /\ [][C12_Step]_vars

\* A /chat that arrives for a session after its log was written
C12_Witness ==
  \E id \in DOMAIN logs :
    /\ id \notin DOMAIN sessions /\ log_writes[id] = 1
    /\ response = Response("/chat", id, 400, "Invalid session ID", None, FALSE)
    /\ logs[id].turns[Len(logs[id].turns)].text = FinalBye

\* The turns of a speaker, and the number of /chat requests a session served
TurnsOf(session, who) ==
  {i \in 1..Len(session.turns) : session.turns[i].who = who}
Chats(session) == Cardinality(TurnsOf(session, "patient"))

\* The first reply of a session denied permission.
Denied(session) == Denies(session.turns[2].text_raw)

\* The robot's turns 4 to k+3 are one question of each submodule, in order.
AskedInOrder(session) ==
  \A j \in 1..Len(session.submodules) :
    \E n \in 1..Len(session.submodules[j].questions) :
      session.turns[Kth(TurnsOf(session, "robot"), j + 3)].text =
        session.submodules[j].questions[n]

C18_Counts ==
  /\ \A id \in DOMAIN sessions :
       LET session == sessions[id]
       IN  /\ session.submodule_index \in 0..Len(session.submodules)
           /\ session.state \in {"awaiting_permission", "awaiting_activity",
                                 "asking_questions"}
           /\ session.state = "awaiting_permission" => Chats(session) = 0
           /\ session.state = "awaiting_activity" => Chats(session) = 1
           /\ session.state = "asking_questions" =>
                Chats(session) = session.submodule_index + 2
  /\ \A id \in DOMAIN logs :
       LET session == logs[id]
           k == Len(session.submodules)
       IN  IF Denied(session) THEN Chats(session) = 1
           ELSE /\ Chats(session) = k + 3
                /\ session.submodule_index = k
                /\ Cardinality(TurnsOf(session, "robot")) = k + 4
                /\ AskedInOrder(session)

\* C18: a session whose /chat requests keep arriving ends: at the first
\* /chat when the first reply denies permission, otherwise at /chat number
\* k+3 for a module of k submodules, the robot having asked one question of
\* each submodule in list order, with submodule_index within 0..k.
C18_SessionTerminates ==
  /\ [](C18_Counts)
  /\ \A id \in 1..MaxSessions :
       (id \in DOMAIN sessions) ~> (id \in DOMAIN logs)

C18_Witness ==
  \E id \in DOMAIN logs :
    /\ ~Denied(logs[id]) /\ Len(logs[id].submodules) = 2
    /\ Chats(logs[id]) = 5

\* The robot turns of a log that hold the submodule questions (the turns
\* after the greeting, the daily-activity question and the introduction, and
\* before the closing turn), and those of them classified as questions.
AskedIdx(d) == {i \in 7..(Len(d.turns) - 1) : d.turns[i].who = "robot"}
ClassifiedIdx(d) == {i \in AskedIdx(d) : looks_like_question(QText(d.turns[i]))}

\* What is claimed of the pairs taken from log d
PairsAsClaimed(d) ==
  \A pairs \in {chatlog_turns_to_qa_list(d)} :
    \A classified \in {ClassifiedIdx(d)} :
      IF Denied(d) THEN pairs = <<>> /\ Conv(d) = <<>>
      ELSE /\ ~looks_like_question(QText(d.turns[1]))
           /\ ~looks_like_question(QText(d.turns[5]))
           /\ Len(pairs) = 1 + Cardinality(classified)
           /\ Len(pairs) <= Len(d.submodules) + 1
           /\ Cardinality(AskedIdx(d)) = Len(d.submodules)
           /\ pairs[1].q = DailyQuestion /\ d.turns[3].text = DailyQuestion
           /\ pairs[1].a = choose_answer_text(d.turns[4])
           /\ \A n \in 1..Cardinality(classified) :
                LET i == Kth(classified, n)
                IN  /\ pairs[n + 1].q = QText(d.turns[i])
                    /\ pairs[n + 1].a = choose_answer_text(d.turns[i + 1])

\* C19: from the log of a finished session that was granted permission, the
\* analyzer takes the greeting and the introduction for no questions, so
\* the replies to them are in no pair; its first pair is the daily-activity
\* question with the reply after it; the other pairs are the submodule
\* questions classified as questions, each with the reply after it, at most
\* k+1 pairs in all. From the log of a denied session it takes no pair, which
\* is where run() gives up. Stated of every log file at the step that
\* writes it.
C19_LogPairs ==
  [][\A id \in DOMAIN logs' :
       id \notin DOMAIN logs => PairsAsClaimed(logs'[id])]_vars

\* The log of a session of two submodules of which one asked text is no
\* question: two pairs, one less than k+1
C19_Witness ==
  \E id \in DOMAIN logs :
    /\ ~Denied(logs[id]) /\ Len(logs[id].submodules) = 2
    /\ Cardinality(ClassifiedIdx(logs[id])) = 1
    /\ Len(chatlog_turns_to_qa_list(logs[id])) = 2

====
